---- MODULE Spec2Model ----
(***************************************************************************)
(* hll_server_status: the authenticated, retrying CRCON API call           *)
(* (with_retry / with_login / login / get_api_result), the per-section     *)
(* refresh loop (update_hook_for_section / handle_webhook), the message-id *)
(* document (get_message_ids / validate_message_ids_format /               *)
(* save_message_id / save_message_ids_to_disk) and the task group of main. *)
(*                                                                         *)
(* One step of the model is one run of a task between two awaits: asyncio  *)
(* runs a task without interruption until it awaits, so everything a task  *)
(* does between receiving one response and sending the next request is one *)
(* atomic action.  The awaits are: the login POST, the endpoint POST, the  *)
(* webhook edit/send, aiofiles.open, the file write/close, asyncio.sleep.  *)
(***************************************************************************)
EXTENDS Integers, Sequences, FiniteSets, TLC

\* ------------------------------------------------------------------ bounds

\* Refresh cycles a section task may start when it runs alone.
MaxCycles == 2

\* Refresh cycles a section task may start when two tasks run.
MaxTaskCycles == 1

\* Responses other than the expected one when two tasks run.
MaxFaults == 1

\* The longest time a cycle takes, in quarters of a second.
MaxElapsed == 7

\* The longest map rotation.
MaxRotation == 4

\* --------------------------------------------------------------- constants

\* with_retry(func, retries=5)
retries == 5

\* constants.NONE_MESSAGE_ID: the "no message yet" value of a section key.
NONE_MESSAGE_ID == 0

\* Python's None where a message id is expected (handle_webhook, message_id = None).
PyNone == -1

\* app_store.cookies holds no "sessionid" (or holds None): cookies.get("sessionid", None).
NoSession == 0

Servers == {"s1", "s2"}

\* keys = ("header", "gamestate", "map_rotation_color", "map_rotation_embed")
keys == {"header", "gamestate", "map_rotation_color", "map_rotation_embed"}

\* constants.MESSAGE_ID_FORMAT["fields"]
fields == keys

Tasks == Servers \X keys

server(t) == t[1]

key(t) == t[2]

\* ------------------------------------------------- the message-id document

\* A TOML document: the message-id table, when it has one.
EmptyTable == [k \in {} |-> 0]

EmptyDoc == [has_table |-> FALSE, table |-> EmptyTable]

Doc(tbl) == [has_table |-> TRUE, table |-> tbl]

NoFile == [exists |-> FALSE, doc |-> EmptyDoc]

File(d) == [exists |-> TRUE, doc |-> d]

\* validate_message_ids_format setting every field to the default value.
validate_message_ids_format_resets(message_ids) ==
    LET table == IF message_ids.has_table THEN message_ids.table ELSE EmptyTable
    IN  Doc([f \in (DOMAIN table) \cup fields |->
                IF f \in fields THEN NONE_MESSAGE_ID ELSE table[f]])

\* validate_message_ids_format: a missing table is created, every missing field is
\* added with the default value, fields already present keep their value.
validate_message_ids_format(message_ids) ==
    LET table == IF message_ids.has_table THEN message_ids.table ELSE EmptyTable
    IN  Doc([f \in (DOMAIN table) \cup fields |->
                IF f \in DOMAIN table THEN table[f] ELSE NONE_MESSAGE_ID])

\* get_message_ids leaving the function when the file is not found.
get_message_ids_unvalidated(file) ==
    IF file.exists THEN validate_message_ids_format(file.doc) ELSE EmptyDoc

\* get_message_ids: load_message_ids_from_disk, FileNotFoundError leaves the empty
\* document of the AppStore, then validation.
get_message_ids(file) ==
    validate_message_ids_format(IF file.exists THEN file.doc ELSE EmptyDoc)

\* save_message_id storing nothing.
save_message_id_nothing(message_ids, k, id) == message_ids

\* save_message_id storing the id under the first key of the table.
save_message_id_first_key(message_ids, k, id) ==
    [message_ids EXCEPT !.table["header"] = id]

\* save_message_id: app_store.message_ids[table_name][key] = message_id
save_message_id(message_ids, k, id) ==
    [message_ids EXCEPT !.table[k] = id]

\* ------------------------------------------------------------ the API call

\* A message id that Python treats as true: "if message_id:".
Truthy(id) == id # 0 /\ id # PyNone

\* Caught with the "except ValueError" clause left out.
CaughtWithoutValueError(exc) == exc \in {"ClientResponseError", "IndexError"}

\* The except clauses of with_retry.
Caught(exc) == exc \in {"ClientResponseError", "IndexError", "ValueError"}

\* The endpoints a section's content builder calls, in order (build_header with no
\* extra embeds, build_gamestate without the slots embed, build_map_rotation_*).
Endpoints(k) ==
    CASE k = "header" -> <<"get_status">>
      [] k = "gamestate" -> <<"get_gamestate">>
      [] OTHER -> <<"get_map_rotation", "get_gamestate">>

\* The non-null results an endpoint can deliver, by what the parsers make of them.
ResultsOf(endpoint) ==
    CASE endpoint = "get_status" -> {"status"}
      [] endpoint = "get_gamestate" -> {"gamestate", "bad_time", "bad_map"}
      [] OTHER -> {"rotation", "bad_rotation_map"}

\* Responses of the control API to an endpoint POST: the JSON envelope with a
\* result, with a null result ("null"), without a result field ("absent"), or an
\* error status.
ApiResponses(endpoint) ==
    {[status |-> 200, body |-> r] : r \in ResultsOf(endpoint) \cup {"null", "absent"}}
        \cup {[status |-> st, body |-> "absent"] : st \in {401, 500}}

\* get_api_result after the response arrived: raise_for_status, json["result"],
\* the None check.
get_api_result(response) ==
    IF response.status # 200 THEN [exc |-> "ClientResponseError", value |-> "None"]
    ELSE IF response.body = "absent" THEN [exc |-> "KeyError", value |-> "None"]
    ELSE IF response.body = "null" THEN [exc |-> "ValueError", value |-> "None"]
    ELSE [exc |-> "none", value |-> response.body]

\* login after the response arrived: raise_for_status, then the sessionid cookie of
\* the response (None, here NoSession, when the response carries none).
login(response) ==
    IF response.status # 200 THEN [exc |-> "ClientResponseError", cookie |-> NoSession]
    ELSE [exc |-> "none", cookie |-> response.cookie]

\* with_login emptying the jar when the login fails.
store_sessionid_clears_on_failure(sessionid, l) ==
    IF l.exc = "none" THEN l.cookie ELSE NoSession

\* with_login never storing what login returns.
store_sessionid_nothing(sessionid, l) == sessionid

\* with_login after login returned or raised, app_store.cookies["sessionid"] =
\* await login(...): the jar's sessionid is assigned only when login returns.
store_sessionid(sessionid, l) ==
    IF l.exc = "none" THEN l.cookie ELSE sessionid

\* with_login without the test of the cookie jar: a login in every attempt.
with_login_every_attempt(sessionid, has_credentials) ==
    IF has_credentials THEN "login" ELSE "ValueError"

\* with_login and login up to their first await: what one attempt does first.
with_login(sessionid, has_credentials) ==
    IF sessionid = NoSession
    THEN IF has_credentials THEN "login" ELSE "ValueError"
    ELSE "request"

\* parse_server_name / parse_gamestate / parse_map_rotation on a call's value: the
\* exception it raises ("none": it returns).
parse(value) ==
    CASE value = "None" -> "TypeError"
      [] value \in {"bad_time", "bad_map", "bad_rotation_map"} -> "ValueError"
      [] OTHER -> "none"

NoRet == [value |-> "", num |-> 0, exc |-> "none"]

\* A task's position after running to its next await (or to its end).
At(p, n, c, e, r) == [pc |-> p, num |-> n, call |-> c, exc |-> e, ret |-> r]

RECURSIVE with_retry(_, _, _, _, _)
RECURSIVE builder(_, _, _, _, _, _)

\* with_retry looping over range(1, retries + 2): one attempt more.
with_retry_one_more(k, sessionid, has_credentials, c, n) ==
    IF n > retries + 1
    THEN builder(k, sessionid, has_credentials, c, "None", retries)
    ELSE LET a == with_login(sessionid, has_credentials)
         IN  IF a = "login" THEN At("login_wait", n, c, "none", NoRet)
             ELSE IF a = "request" THEN At("request_wait", n, c, "none", NoRet)
             ELSE IF Caught(a) THEN with_retry(k, sessionid, has_credentials, c, n + 1)
             ELSE At("failed", n, c, a, [value |-> "raised", num |-> n, exc |-> a])

\* The loop of with_retry entering attempt n of call c: the attempt suspends in the
\* login or in the request, or fails before any await and the loop goes on; after
\* the last attempt the call returns None.
with_retry(k, sessionid, has_credentials, c, n) ==
    IF n > retries
    THEN builder(k, sessionid, has_credentials, c, "None", retries)
    ELSE LET a == with_login(sessionid, has_credentials)
         IN  IF a = "login" THEN At("login_wait", n, c, "none", NoRet)
             ELSE IF a = "request" THEN At("request_wait", n, c, "none", NoRet)
             ELSE IF Caught(a) THEN with_retry(k, sessionid, has_credentials, c, n + 1)
             ELSE At("failed", n, c, a, [value |-> "raised", num |-> n, exc |-> a])

\* The content builder of section k once call c returned value at attempt n: parse
\* it, then the next call, or hand the content to handle_webhook.
builder(k, sessionid, has_credentials, c, value, n) ==
    LET r == [value |-> value, num |-> n, exc |-> "none"]
    IN  IF parse(value) # "none" THEN At("failed", n, c, parse(value), r)
        ELSE IF c < Len(Endpoints(k))
        THEN LET o == with_retry(k, sessionid, has_credentials, c + 1, 1)
             IN  [o EXCEPT !.ret = IF o.ret = NoRet THEN r ELSE o.ret]
        ELSE At("publish_wait", 1, c, "none", r)

\* An exception raised in attempt n of call c: caught and retried, or it leaves
\* with_retry, the builder and update_hook_for_section.
on_exception(k, sessionid, has_credentials, c, n, exc) ==
    IF Caught(exc) THEN with_retry(k, sessionid, has_credentials, c, n + 1)
    ELSE At("failed", n, c, exc, [value |-> "raised", num |-> n, exc |-> exc])

\* ----------------------------------------------------------- the publishing

\* handle_webhook without the "if message_id" branch: always a send.
webhook_request_always_send(message_id) ==
    [op |-> "create", endpoint |-> "webhook", arg |-> message_id]

\* handle_webhook editing whatever it carries.
webhook_request_always_edit(message_id) ==
    [op |-> "edit", endpoint |-> "webhook", arg |-> message_id]

\* handle_webhook up to its await: edit the message when there is an id, else send.
webhook_request(message_id) ==
    IF Truthy(message_id) THEN [op |-> "edit", endpoint |-> "webhook", arg |-> message_id]
    ELSE [op |-> "create", endpoint |-> "webhook", arg |-> message_id]

\* handle_webhook without "message_id = None" in the NotFound clause.
handle_webhook_keeps_missing(message_id, outcome, returned) ==
    IF outcome = "ok" THEN returned ELSE message_id

\* handle_webhook forgetting the id in the RateLimited clause too.
handle_webhook_forgets_limited(message_id, outcome, returned) ==
    IF outcome = "ok" THEN returned ELSE PyNone

\* handle_webhook returning the id it was given after a success too.
handle_webhook_ignores_message(message_id, outcome, returned) ==
    IF outcome = "NotFound" THEN PyNone ELSE message_id

\* handle_webhook after its await: the id of the returned message, None after
\* NotFound, the id passed in after RateLimited.
handle_webhook(message_id, outcome, returned) ==
    CASE outcome = "ok" -> returned
      [] outcome = "NotFound" -> PyNone
      [] OTHER -> message_id

\* ------------------------------------------------- the rotation positions

\* constants.BETWEEN_MATCHES_MAP_NAME: the raw name of a Map between two matches.
BETWEEN_MATCHES_MAP_NAME == "between_matches"

\* models.Map: a validated raw map name.
Map(name) == [raw_name |-> name]

\* list.count(x)
count(list, x) == Cardinality({i \in DOMAIN list : list[i] = x})

\* list.index(x), from 0: the first place of x.
index(list, x) ==
    (CHOOSE i \in DOMAIN list : list[i] = x /\ \A j \in DOMAIN list : list[j] = x => i <= j) - 1

RECURSIVE current_map_idxs(_, _, _)

\* The loop of guess_current_map_rotation_positions from idx on: for every idx
\* holding the next map's name, the place before it, the last place when idx is 0.
current_map_idxs(raw_names, next_name, idx) ==
    IF idx >= Len(raw_names) THEN <<>>
    ELSE (IF raw_names[idx + 1] = next_name
          THEN <<IF idx = 0 THEN Len(raw_names) - 1 ELSE idx - 1>>
          ELSE <<>>) \o current_map_idxs(raw_names, next_name, idx + 1)

\* guess_current_map_rotation_positions taking the first occurrence of the current
\* map whenever it occurs.
guess_current_first_occurrence(rotation, current_map, next_map) ==
    LET raw_names == [i \in DOMAIN rotation |-> rotation[i].raw_name]
    IN  IF current_map.raw_name = BETWEEN_MATCHES_MAP_NAME THEN <<>>
        ELSE IF count(raw_names, current_map.raw_name) >= 1
        THEN <<index(raw_names, current_map.raw_name)>>
        ELSE current_map_idxs(raw_names, next_map.raw_name, 0)

\* guess_current_map_rotation_positions without the between-matches test.
guess_current_always(rotation, current_map, next_map) ==
    LET raw_names == [i \in DOMAIN rotation |-> rotation[i].raw_name]
    IN  IF count(raw_names, current_map.raw_name) = 1
        THEN <<index(raw_names, current_map.raw_name)>>
        ELSE current_map_idxs(raw_names, next_map.raw_name, 0)

\* guess_current_map_rotation_positions taking the place after the single
\* occurrence of the current map.
guess_current_off_by_one(rotation, current_map, next_map) ==
    LET raw_names == [i \in DOMAIN rotation |-> rotation[i].raw_name]
    IN  IF current_map.raw_name = BETWEEN_MATCHES_MAP_NAME THEN <<>>
        ELSE IF count(raw_names, current_map.raw_name) = 1
        THEN <<index(raw_names, current_map.raw_name) + 1>>
        ELSE current_map_idxs(raw_names, next_map.raw_name, 0)

\* guess_current_map_rotation_positions: places are counted from 0.
guess_current_map_rotation_positions(rotation, current_map, next_map) ==
    LET raw_names == [i \in DOMAIN rotation |-> rotation[i].raw_name]
    IN  IF current_map.raw_name = BETWEEN_MATCHES_MAP_NAME THEN <<>>
        ELSE IF count(raw_names, current_map.raw_name) = 1
        THEN <<index(raw_names, current_map.raw_name)>>
        ELSE current_map_idxs(raw_names, next_map.raw_name, 0)

\* guess_next_map_rotation_positions without the wrap to the start.
guess_next_without_wrap(current_map_positions, rotation) ==
    [i \in DOMAIN current_map_positions |-> current_map_positions[i] + 1]

\* guess_next_map_rotation_positions
guess_next_map_rotation_positions(current_map_positions, rotation) ==
    LET rotation_length == Len(rotation)
    IN  [i \in DOMAIN current_map_positions |->
            IF current_map_positions[i] = rotation_length - 1 THEN 0
            ELSE current_map_positions[i] + 1]

\* ---------------------------------------------------------------- the sleep

\* factor = 1_000_000_000: nanoseconds in a second.
factor == 1000000000

\* Python's round(n / d, ndigits=0) for d > 0: the nearest whole number, a half
\* goes to the even one (the float -0.0 is 0 here).
round(n, d) ==
    LET q == n \div d
        r == n % d
    IN  IF 2 * r < d THEN q
        ELSE IF 2 * r > d THEN q + 1
        ELSE IF q % 2 = 0 THEN q ELSE q + 1

\* update_hook_for_section: the seconds passed to asyncio.sleep.
time_to_sleep(refresh_delay, elapsed_time_ns) ==
    LET refresh_delay_ns == refresh_delay * factor
    IN  round(refresh_delay_ns - elapsed_time_ns, factor)

\* ------------------------------------------------------- the tasks of main

\* keys, in the order of the tuple.
key_order == <<"header", "gamestate", "map_rotation_color", "map_rotation_embed">>

\* main's sections of a server listing every key, enabled or not.
sections_of_every_key(s, enabled, ids) ==
    [i \in DOMAIN key_order |->
        [app_store |-> s, config |-> s, key |-> key_order[i],
         message_id |-> IF key_order[i] \in DOMAIN ids.table THEN ids.table[key_order[i]]
                        ELSE PyNone]]

\* main's sections of server s: for each key in order whose section is enabled in
\* the server's config, the server's AppStore and Config, the key and the id the
\* validated document holds for the key (PyNone here where the lookup raises).
sections(s, enabled, ids) ==
    SelectSeq([i \in DOMAIN key_order |->
                [app_store |-> s, config |-> s, key |-> key_order[i],
                 message_id |-> IF key_order[i] \in DOMAIN ids.table THEN ids.table[key_order[i]]
                                ELSE PyNone]],
              LAMBDA section : <<s, section.key>> \in enabled)

RECURSIVE flatten(_)

\* The two loops over server_sections: every section of every server, in order.
flatten(lists) ==
    IF lists = <<>> THEN <<>> ELSE Head(lists) \o flatten(Tail(lists))

\* The TaskGroup raising when it holds no task.
taskgroup_exit_raises_when_empty(ended) ==
    IF ended = {} \/ "failed" \in ended THEN "raised" ELSE "returned"

\* Leaving the TaskGroup once its tasks have ended as in ended: the failure of a
\* task is raised again, otherwise main goes on to its end.
taskgroup_exit(ended) ==
    IF "failed" \in ended THEN "raised" ELSE "returned"

\* ------------------------------------------------------------------- state

VARIABLES
    config,        \* the loaded configuration: enabled sections, credentials
    budget,        \* what the run may still use up
    cookies,       \* app_store.cookies["sessionid"] of each server
    message_ids,   \* app_store.message_ids of each server
    disk,          \* the persisted <server>.toml of each server
    pc,            \* where each section task is suspended
    num,           \* with_retry's attempt number
    call,          \* which call of its builder the task is in
    message_id,    \* update_hook_for_section's message_id
    inflight,      \* the request the task awaits
    toml,          \* save_message_ids_to_disk's serialised document
    cycle,         \* cycles the task has started
    error,         \* the exception that ended the task
    next_id,       \* the last message id the webhook gave out
    next_token,    \* the last session id the control API gave out
    got,           \* the response the task handled last
    api_ret,       \* what the task's last finished get_api_result call returned
    last_publish,  \* the task's last finished publish
    sleep,         \* the elapsed time and the time to sleep of the task's cycle
    server_sections, \* the servers main has loaded the ids and built the sections of
    main,          \* where main is, what it logged, the sections and the tasks it made
    login_token,   \* what each task's last login returned
    sent,          \* the requests the task's call has sent, the logins refused
    guess          \* a map rotation, the maps of a gamestate and the guessed positions

vars == <<config, budget, cookies, message_ids, disk, pc, num, call, message_id, inflight,
          toml, cycle, error, next_id, next_token, got, api_ret, last_publish, sleep, guess,
          server_sections, main, login_token, sent>>

Alive == {"created", "login_wait", "request_wait", "publish_wait", "save_open",
          "save_write", "sleeping"}

NoRequest == [op |-> "none", endpoint |-> "", arg |-> 0]

NoResponse == [op |-> "none", status |-> 0, body |-> "", id |-> 0]

NoPublish == [op |-> "none", arg |-> 0, outcome |-> "", before |-> 0, cycle |-> 0]

NoSleep == [elapsed_time_ns |-> 0, time_to_sleep |-> 0]

NoneSent == [api |-> 0, login |-> 0, refused |-> 0]

NoGuess == [pc |-> "off", rotation |-> <<>>, current_map |-> Map(""), next_map |-> Map(""),
            current_map_positions |-> <<>>, next_map_positions |-> <<>>]

\* What main can find in the message-id directory for a server: no file, an empty
\* file, a table with some of the keys, a table with every key.
PersistedFiles ==
    {NoFile, File(EmptyDoc), File(Doc([k \in {"header"} |-> 7])), File(Doc([k \in keys |-> 8]))}

\* A configuration the tasks are started from: the enabled sections, whether each
\* server's config holds a username and a password, the file main finds for each
\* server; discord.time_between_refreshes is 1 second for s1 and 2 for s2.
Config(enabled, credentials, files) ==
    [servers |-> Servers, enabled |-> enabled, credentials |-> credentials, files |-> files,
     time_between_refreshes |-> [s \in Servers |-> IF s = "s1" THEN 1 ELSE 2]]

\* One enabled section in all.
Configs ==
    {Config({t}, [s \in Servers |-> c], [s \in Servers |-> IF s = server(t) THEN f ELSE NoFile]) :
        t \in {<<"s1", "header">>, <<"s1", "gamestate">>, <<"s2", "map_rotation_color">>},
        c \in BOOLEAN, f \in PersistedFiles}

\* Two enabled sections, of one server or of two.
TaskConfigs ==
    {Config(e, [s \in Servers |-> TRUE], [s \in Servers |-> f]) :
        e \in {{<<"s1", "header">>, <<"s1", "gamestate">>},
               {<<"s1", "header">>, <<"s2", "map_rotation_color">>}},
        f \in {NoFile, File(Doc([k \in keys |-> 8]))}}

\* main after the task group has created its tasks: one AppStore per server with
\* empty cookies and the validated message ids, one task per enabled section,
\* started with the id stored for its key.  b is what the run may use up: the
\* cycles of a task, the responses other than the expected one (below 0: any
\* number).
InitWith(configs, b) ==
    /\ config \in configs
    /\ budget = b
    /\ cookies = [s \in Servers |-> NoSession]
    /\ disk = config.files
    /\ message_ids = [s \in Servers |-> get_message_ids(config.files[s])]
    /\ pc = [t \in Tasks |-> IF t \in config.enabled THEN "created" ELSE "off"]
    /\ num = [t \in Tasks |-> 1]
    /\ call = [t \in Tasks |-> 1]
    /\ message_id = [t \in Tasks |->
                        IF t \in config.enabled
                        THEN get_message_ids(config.files[server(t)]).table[key(t)]
                        ELSE NONE_MESSAGE_ID]
    /\ inflight = [t \in Tasks |-> NoRequest]
    /\ toml = [t \in Tasks |-> EmptyDoc]
    /\ cycle = [t \in Tasks |-> 0]
    /\ error = [t \in Tasks |-> "none"]
    /\ next_id = 10
    /\ next_token = 0
    /\ got = [t \in Tasks |-> NoResponse]
    /\ api_ret = [t \in Tasks |-> NoRet]
    /\ last_publish = [t \in Tasks |-> NoPublish]
    /\ sleep = [t \in Tasks |-> NoSleep]
    /\ server_sections = Servers
    /\ login_token = [t \in Tasks |-> NoSession]
    /\ sent = [t \in Tasks |-> NoneSent]
    /\ LET lists == <<sections("s1", config.enabled, get_message_ids(config.files["s1"])),
                      sections("s2", config.enabled, get_message_ids(config.files["s2"]))>>
       IN  main = [pc |-> "taskgroup", logged |-> FALSE, sections |-> lists,
                   tasks |-> flatten(lists)]

Init ==
    /\ InitWith(Configs, [cycles |-> MaxCycles, faults |-> 0 - 1])
    /\ guess = NoGuess

InitTasks ==
    /\ InitWith(TaskConfigs, [cycles |-> MaxTaskCycles, faults |-> MaxFaults])
    /\ guess = NoGuess

\* The environment may answer with a response (or take a time) other than the
\* expected one.
MayFail == budget.faults # 0

\* The budget after the response: one less when it was not the expected one.
Spend(expected) ==
    IF expected \/ budget.faults < 0 THEN budget
    ELSE [budget EXCEPT !.faults = @ - 1]

\* The request a task at position o awaits; sessionid is the cookie jar's value as
\* the task suspends.
Request(t, o, sessionid) ==
    CASE o.pc = "login_wait" -> [op |-> "login", endpoint |-> "login", arg |-> 0]
      [] o.pc = "request_wait" ->
            [op |-> "api", endpoint |-> Endpoints(key(t))[o.call], arg |-> sessionid]
      [] o.pc = "publish_wait" -> webhook_request(message_id[t])
      [] OTHER -> NoRequest

\* The requests of task t's call once the task is at position o: the request the
\* task suspends in is one more, of a call that begins when the position is in
\* another call than before; refused is 1 when the step handled a login answered
\* with an error status.  A call that returned has no requests any more.
Sent(t, o, refused) ==
    LET waits == {"login_wait", "request_wait"}
        same == pc[t] \in waits /\ o.call = call[t]
        base == IF same \/ o.pc \notin waits THEN [sent[t] EXCEPT !.refused = @ + refused]
                ELSE NoneSent
    IN  CASE o.pc = "login_wait" -> [base EXCEPT !.login = @ + 1]
          [] o.pc = "request_wait" -> [base EXCEPT !.api = @ + 1]
          [] o.pc = "publish_wait" -> NoneSent
          [] OTHER -> base

\* Task t suspends at position o.  An exception that leaves update_hook_for_section
\* ends the task, and the TaskGroup of main then cancels every other task.
Goto(t, o, sessionid, refused) ==
    /\ sent' = [sent EXCEPT ![t] = Sent(t, o, refused)]
    /\ pc' = IF o.pc = "failed"
             THEN [u \in Tasks |-> IF u = t THEN "failed"
                                   ELSE IF pc[u] \in Alive THEN "cancelled" ELSE pc[u]]
             ELSE [pc EXCEPT ![t] = o.pc]
    /\ num' = [num EXCEPT ![t] = o.num]
    /\ call' = [call EXCEPT ![t] = o.call]
    /\ error' = [error EXCEPT ![t] = o.exc]
    /\ inflight' = [inflight EXCEPT ![t] = Request(t, o, sessionid)]
    /\ api_ret' = IF o.ret = NoRet THEN api_ret ELSE [api_ret EXCEPT ![t] = o.ret]

\* update_hook_for_section: the top of the loop, into the builder's first call.
StartCycle(t) ==
    /\ pc[t] \in {"created", "sleeping"}
    /\ cycle[t] < budget.cycles
    /\ cycle' = [cycle EXCEPT ![t] = @ + 1]
    /\ sleep' = [sleep EXCEPT ![t] = NoSleep]
    /\ Goto(t, with_retry(key(t), cookies[server(t)], config.credentials[server(t)], 1, 1),
            cookies[server(t)], 0)
    /\ UNCHANGED <<config, budget, cookies, message_ids, disk, message_id, toml, next_id,
                   next_token, got, last_publish, guess,
                   server_sections, main, login_token>>

\* Responses of the control API to the login POST: a fresh sessionid cookie, no
\* sessionid cookie, or an error status.
LoginResponses ==
    {[status |-> 200, cookie |-> next_token + 1], [status |-> 200, cookie |-> NoSession],
     [status |-> 401, cookie |-> NoSession]}

\* The login POST of with_login returns: the cookie is stored and the endpoint
\* request is sent with the cookie jar, or the attempt fails.
LoginResponse(t) ==
    /\ pc[t] = "login_wait"
    /\ \E response \in LoginResponses :
        LET l == login(response)
            s == server(t)
            expected == response.status = 200 /\ response.cookie # NoSession
        IN  /\ expected \/ MayFail
            /\ budget' = Spend(expected)
            /\ got' = [got EXCEPT ![t] = [op |-> "login", status |-> response.status,
                                          body |-> "", id |-> response.cookie]]
            /\ next_token' = IF response.cookie # NoSession THEN response.cookie
                             ELSE next_token
            /\ cookies' = [cookies EXCEPT ![s] = store_sessionid(@, l)]
            /\ login_token' = IF l.exc = "none" THEN [login_token EXCEPT ![t] = l.cookie]
                              ELSE login_token
            /\ IF l.exc = "none"
               THEN Goto(t, At("request_wait", num[t], call[t], "none", NoRet), cookies'[s], 0)
               ELSE Goto(t, on_exception(key(t), cookies'[s], config.credentials[s],
                                         call[t], num[t], l.exc), cookies'[s], 1)
    /\ UNCHANGED <<config, message_ids, disk, message_id, toml, cycle, next_id,
                   last_publish, sleep, guess, server_sections, main>>

\* The endpoint POST of get_api_result returns.
ApiResponse(t) ==
    /\ pc[t] = "request_wait"
    /\ \E response \in ApiResponses(inflight[t].endpoint) :
        LET r == get_api_result(response)
            s == server(t)
            expected == r.exc = "none" /\ parse(r.value) = "none"
        IN  /\ expected \/ MayFail
            /\ budget' = Spend(expected)
            /\ got' = [got EXCEPT ![t] = [op |-> "api", status |-> response.status,
                                          body |-> response.body, id |-> 0]]
            /\ IF r.exc = "none"
               THEN Goto(t, builder(key(t), cookies[s], config.credentials[s], call[t],
                                    r.value, num[t]), cookies[s], 0)
               ELSE Goto(t, on_exception(key(t), cookies[s], config.credentials[s],
                                         call[t], num[t], r.exc), cookies[s], 0)
    /\ UNCHANGED <<config, cookies, message_ids, disk, message_id, toml, cycle, next_id,
                   next_token, last_publish, sleep, guess,
                   server_sections, main, login_token>>

\* What the webhook answers to an edit or a send.
PublishOutcomes == {"ok", "NotFound", "RateLimited"}

\* The webhook call of handle_webhook returns; update_hook_for_section stores a
\* true id in the AppStore and opens the file to save it.
PublishResponse(t) ==
    /\ pc[t] = "publish_wait"
    /\ \E outcome \in PublishOutcomes :
        LET returned == IF inflight[t].op = "edit" THEN inflight[t].arg ELSE next_id + 1
            id == handle_webhook(message_id[t], outcome, returned)
            s == server(t)
        IN  /\ outcome = "ok" \/ MayFail
            /\ budget' = Spend(outcome = "ok")
            /\ got' = [got EXCEPT ![t] = [op |-> "publish", status |-> 0,
                                          body |-> outcome, id |-> id]]
            /\ last_publish' = [last_publish EXCEPT ![t] =
                    [op |-> inflight[t].op, arg |-> inflight[t].arg, outcome |-> outcome,
                     before |-> message_id[t], cycle |-> cycle[t]]]
            /\ next_id' = IF outcome = "ok" /\ inflight[t].op = "create" THEN next_id + 1
                          ELSE next_id
            /\ message_id' = [message_id EXCEPT ![t] = id]
            /\ message_ids' = IF Truthy(id)
                              THEN [message_ids EXCEPT ![s] = save_message_id(@, key(t), id)]
                              ELSE message_ids
    /\ pc' = [pc EXCEPT ![t] = "save_open"]
    /\ inflight' = [inflight EXCEPT ![t] = [op |-> "open", endpoint |-> "", arg |-> 0]]
    /\ api_ret' = [api_ret EXCEPT ![t] = NoRet]
    /\ UNCHANGED <<config, cookies, disk, num, call, toml, cycle, error, next_token, sleep,
                   guess,
                   server_sections, main, login_token, sent>>

\* save_message_ids_to_disk: aiofiles.open(file, mode="w") returns, the file is
\* created or truncated; the document is serialised and the write is awaited.
SaveOpened(t) ==
    /\ pc[t] = "save_open"
    /\ disk' = [disk EXCEPT ![server(t)] = File(EmptyDoc)]
    /\ toml' = [toml EXCEPT ![t] = message_ids[server(t)]]
    /\ pc' = [pc EXCEPT ![t] = "save_write"]
    /\ inflight' = [inflight EXCEPT ![t] = [op |-> "write", endpoint |-> "", arg |-> 0]]
    /\ UNCHANGED <<config, budget, cookies, message_ids, num, call, message_id, cycle,
                   error, next_id, next_token, got, api_ret, last_publish, sleep, guess,
                   server_sections, main, login_token, sent>>

\* The time perf_counter_ns can show to have passed since the top of the loop, in
\* quarters of a second.
ElapsedTimes == {q * (factor \div 4) : q \in 0 .. MaxElapsed}

\* The write and the close return: the file holds the serialised document, and
\* update_hook_for_section computes the time to sleep from the time the cycle took
\* and goes to sleep.
SaveWritten(t) ==
    /\ pc[t] = "save_write"
    /\ disk' = [disk EXCEPT ![server(t)] = File(toml[t])]
    /\ \E elapsed_time_ns \in ElapsedTimes :
        LET refresh_delay == config.time_between_refreshes[server(t)]
            expected == elapsed_time_ns = factor \div 4
        IN  /\ expected \/ MayFail
            /\ budget' = Spend(expected)
            /\ sleep' = [sleep EXCEPT ![t] =
                    [elapsed_time_ns |-> elapsed_time_ns,
                     time_to_sleep |-> time_to_sleep(refresh_delay, elapsed_time_ns)]]
    /\ pc' = [pc EXCEPT ![t] = "sleeping"]
    /\ inflight' = [inflight EXCEPT ![t] = NoRequest]
    /\ UNCHANGED <<config, cookies, message_ids, num, call, message_id, toml,
                   cycle, error, next_id, next_token, got, api_ret, last_publish, guess,
                   server_sections, main, login_token, sent>>

\* main leaves the TaskGroup when no task of it is left running (at once when it
\* holds none), and ends.
TaskGroupExit ==
    /\ main.pc = "taskgroup"
    /\ \A t \in Tasks : pc[t] \notin Alive
    /\ main' = [main EXCEPT !.pc = taskgroup_exit({pc[t] : t \in Tasks} \ {"off"})]
    /\ UNCHANGED <<config, budget, cookies, message_ids, disk, pc, num, call, message_id,
                   inflight, toml, cycle, error, next_id, next_token, got, api_ret,
                   last_publish, sleep, guess, server_sections, login_token, sent>>

Next ==
    \/ \E t \in Tasks :
        \/ StartCycle(t)
        \/ LoginResponse(t)
        \/ ApiResponse(t)
        \/ PublishResponse(t)
        \/ SaveOpened(t)
        \/ SaveWritten(t)
    \/ TaskGroupExit

\* One section task.
Spec == Init /\ [][Next]_vars

\* Two section tasks.
SpecTasks == InitTasks /\ [][Next]_vars

\* ------------------------------------------------- the start of main, on its own

\* The tables a persisted file can hold: any of the keys, each with an id.
StoredTables ==
    UNION {[present -> {7, 9}] : present \in SUBSET keys}

\* What main can find in the message-id directory for a server: no file, an empty
\* file, a file with a table of any of the keys.
LoadableFiles == {NoFile, File(EmptyDoc)} \cup {File(Doc(tbl)) : tbl \in StoredTables}

\* One section of s1 enabled, or every section of both servers; a config file for
\* both servers, for s1 only, or for none.
LoadConfigs ==
    LET both == {Config(e, [s \in Servers |-> TRUE],
                        [s \in Servers |-> IF s = "s1" THEN f ELSE g]) :
                    e \in {{<<"s1", "header">>}, Tasks}, f \in LoadableFiles,
                    g \in PersistedFiles}
    IN  both \cup {[c EXCEPT !.servers = {"s1"}] : c \in {b \in both : b.files["s2"] = NoFile}}
             \cup {[c EXCEPT !.servers = {}, !.enabled = {}] :
                        c \in {b \in both : b.files["s2"] = NoFile /\ b.files["s1"] = NoFile}}

\* main before it reads the config directory: the AppStore of a server will hold
\* the empty document, no section is built.
InitLoad ==
    /\ config \in LoadConfigs
    /\ budget = [cycles |-> 0, faults |-> 0]
    /\ cookies = [s \in Servers |-> NoSession]
    /\ disk = config.files
    /\ message_ids = [s \in Servers |-> EmptyDoc]
    /\ pc = [t \in Tasks |-> "off"]
    /\ num = [t \in Tasks |-> 1]
    /\ call = [t \in Tasks |-> 1]
    /\ message_id = [t \in Tasks |-> NONE_MESSAGE_ID]
    /\ inflight = [t \in Tasks |-> NoRequest]
    /\ toml = [t \in Tasks |-> EmptyDoc]
    /\ cycle = [t \in Tasks |-> 0]
    /\ error = [t \in Tasks |-> "none"]
    /\ next_id = 10
    /\ next_token = 0
    /\ got = [t \in Tasks |-> NoResponse]
    /\ api_ret = [t \in Tasks |-> NoRet]
    /\ last_publish = [t \in Tasks |-> NoPublish]
    /\ sleep = [t \in Tasks |-> NoSleep]
    /\ server_sections = {}
    /\ login_token = [t \in Tasks |-> NoSession]
    /\ sent = [t \in Tasks |-> NoneSent]
    /\ main = [pc |-> "start", logged |-> FALSE, sections |-> <<>>, tasks |-> <<>>]
    /\ guess = NoGuess

\* main's loop over the servers, for server s: get_message_ids loads and validates
\* the ids into the AppStore, and every enabled section is listed with
\* message_ids[table_name][key], which raises KeyError and ends main when the key
\* is not there.
ServerSections(s) ==
    /\ main.pc = "loading"
    /\ s \in config.servers
    /\ s \notin server_sections
    /\ LET ids == IF message_ids[s] = EmptyDoc THEN get_message_ids(disk[s])
                  ELSE message_ids[s]
           found(t) == key(t) \in DOMAIN ids.table
           mine(t) == server(t) = s /\ t \in config.enabled
       IN  /\ message_ids' = [message_ids EXCEPT ![s] = ids]
           /\ pc' = [t \in Tasks |-> IF ~mine(t) THEN pc[t]
                                      ELSE IF found(t) THEN "section" ELSE "failed"]
           /\ error' = [t \in Tasks |-> IF mine(t) /\ ~found(t) THEN "KeyError"
                                         ELSE error[t]]
           /\ message_id' = [t \in Tasks |-> IF mine(t) /\ found(t) THEN ids.table[key(t)]
                                              ELSE message_id[t]]
           /\ main' = [main EXCEPT
                    !.sections = Append(@, sections(s, config.enabled, ids)),
                    !.pc = IF \E t \in Tasks : mine(t) /\ ~found(t) THEN "raised" ELSE @]
    /\ server_sections' = server_sections \cup {s}
    /\ UNCHANGED <<config, budget, cookies, disk, num, call, inflight, toml, cycle, next_id,
                   next_token, got, api_ret, last_publish, sleep, guess, login_token, sent>>

\* main reads the config directory: one (AppStore, Config) per config file, an
\* error logged when there is none.
ReadConfigs ==
    /\ main.pc = "start"
    /\ main' = [main EXCEPT !.pc = "loading", !.logged = (config.servers = {})]
    /\ UNCHANGED <<config, budget, cookies, message_ids, disk, pc, num, call, message_id,
                   inflight, toml, cycle, error, next_id, next_token, got, api_ret,
                   last_publish, sleep, guess, server_sections, login_token, sent>>

\* main enters the TaskGroup after the loop over the servers: one task is created
\* for every section of every server, with the section's message id.
CreateTasks ==
    /\ main.pc = "loading"
    /\ server_sections = config.servers
    /\ LET created == flatten(main.sections)
           task(t) == {i \in DOMAIN created :
                        created[i].app_store = server(t) /\ created[i].key = key(t)}
       IN  /\ main' = [main EXCEPT !.pc = "taskgroup", !.tasks = created]
           /\ pc' = [t \in Tasks |-> IF task(t) # {} THEN "created" ELSE "off"]
           /\ message_id' = [t \in Tasks |->
                                IF task(t) # {} THEN created[CHOOSE i \in task(t) : TRUE].message_id
                                ELSE message_id[t]]
    /\ UNCHANGED <<config, budget, cookies, message_ids, disk, num, call, inflight, toml,
                   cycle, error, next_id, next_token, got, api_ret, last_publish, sleep,
                   guess, server_sections, login_token, sent>>

NextLoad ==
    \/ ReadConfigs
    \/ \E s \in Servers : ServerSections(s)
    \/ CreateTasks
    \/ TaskGroupExit

\* The loading of the message ids at the start of main.
SpecLoad == InitLoad /\ [][NextLoad]_vars

\* ---------------------------------------- the rotation positions, on their own

\* The raw names of the maps of a rotation.
MapNames == {"A", "B", "C"}

RECURSIVE Lists(_, _)

\* The lists of at most n elements of S.
Lists(S, n) ==
    IF n = 0 THEN {<<>>}
    ELSE Lists(S, n - 1) \cup {Append(l, x) : l \in {m \in Lists(S, n - 1) : Len(m) = n - 1}, x \in S}

\* What parse_map_rotation can return: maps in any order, repeated or not.
Rotations == Lists({Map(n) : n \in MapNames}, MaxRotation)

\* The current_map and next_map parse_gamestate can return: a map of the game,
\* in the rotation or not, or the between-matches map.
GamestateMaps == {Map(n) : n \in MapNames \cup {BETWEEN_MATCHES_MAP_NAME}}

\* build_map_rotation_color / build_map_rotation_embed after both calls were
\* parsed: any rotation with any current and next map.
InitGuess ==
    /\ InitWith({Config({}, [s \in Servers |-> TRUE], [s \in Servers |-> NoFile])},
                [cycles |-> 0, faults |-> 0])
    /\ guess \in {[pc |-> "parsed", rotation |-> r, current_map |-> c, next_map |-> n,
                    current_map_positions |-> <<>>, next_map_positions |-> <<>>] :
                        r \in Rotations, c \in GamestateMaps, n \in GamestateMaps}

\* current_map_positions = guess_current_map_rotation_positions(...)
GuessCurrent ==
    /\ guess.pc = "parsed"
    /\ guess' = [guess EXCEPT
            !.pc = "current",
            !.current_map_positions =
                guess_current_map_rotation_positions(guess.rotation, guess.current_map,
                                                     guess.next_map)]
    /\ UNCHANGED <<config, budget, cookies, message_ids, disk, pc, num, call, message_id,
                   inflight, toml, cycle, error, next_id, next_token, got, api_ret,
                   last_publish, sleep,
                   server_sections, main, login_token, sent>>

\* next_map_positions = guess_next_map_rotation_positions(...)
GuessNext ==
    /\ guess.pc = "current"
    /\ guess' = [guess EXCEPT
            !.pc = "next",
            !.next_map_positions =
                guess_next_map_rotation_positions(guess.current_map_positions, guess.rotation)]
    /\ UNCHANGED <<config, budget, cookies, message_ids, disk, pc, num, call, message_id,
                   inflight, toml, cycle, error, next_id, next_token, got, api_ret,
                   last_publish, sleep,
                   server_sections, main, login_token, sent>>

NextGuess == GuessCurrent \/ GuessNext

\* The position guessing of the map rotation builders.
SpecGuess == InitGuess /\ [][NextGuess]_vars

\* ------------------------------------------------------------------ claims

\* Task t handled the response of its endpoint POST in this step; got'[t] is it.
ApiStep(t) ==
    /\ pc[t] = "request_wait"
    /\ pc'[t] # "cancelled"
    /\ <<pc[t], num[t], call[t]>> # <<pc'[t], num'[t], call'[t]>>

\* Task t handled the response of its login POST in this step; got'[t] is it.
LoginStep(t) ==
    /\ pc[t] = "login_wait"
    /\ pc'[t] # "cancelled"
    /\ <<pc[t], num[t]>> # <<pc'[t], num'[t]>>

\* Task t handled the webhook's answer in this step; got'[t] is it.
PublishStep(t) ==
    /\ pc[t] = "publish_wait"
    /\ pc'[t] \notin {"publish_wait", "cancelled"}

\* Task t began an attempt of a call in this step and suspended in it.
BeginsAttempt(t) ==
    /\ pc'[t] \in {"login_wait", "request_wait"}
    /\ \/ pc[t] \in {"created", "sleeping"}
       \/ pc[t] \in {"login_wait", "request_wait"}
            /\ <<num[t], call[t]>> # <<num'[t], call'[t]>>

\* The attempt that got response r failed with an error with_retry retries.
RetryableFailure(r) == r.status # 200 \/ (r.op = "api" /\ r.body = "null")

\* What with_retry does with a retryable failure in attempt n: the next attempt of
\* the same call, or, after the last attempt, None returned without an exception.
RetriedOrNone(t) ==
    IF num[t] < retries
    THEN /\ api_ret'[t] = api_ret[t]
         /\ num'[t] = num[t] + 1
         /\ call'[t] = call[t]
         /\ pc'[t] \in {"login_wait", "request_wait"}
    ELSE api_ret'[t] = [value |-> "None", num |-> retries, exc |-> "none"]

\* C1: in one get_api_result call, an attempt that fails with a retryable error
\* (non-success status of the endpoint or of the login, null result) is followed by
\* the next attempt while fewer than 5 were made, and the first attempt that
\* succeeds makes the call return exactly the result of its response; when the 5th
\* attempt fails too, the call returns None and raises nothing.
C1_RetryThenResult ==
    [][\A t \in Tasks :
        /\ (ApiStep(t) /\ got'[t].status = 200 /\ got'[t].body \notin {"null", "absent"})
            => api_ret'[t] = [value |-> got'[t].body, num |-> num[t], exc |-> "none"]
        /\ (ApiStep(t) /\ RetryableFailure(got'[t])) => RetriedOrNone(t)
        /\ (LoginStep(t) /\ RetryableFailure(got'[t])) => RetriedOrNone(t)]_vars

\* C1 witness: a call returned the result of its 5th attempt, after 4 failures.
C1_Witness ==
    \E t \in Tasks :
        /\ api_ret[t].num = retries
        /\ api_ret[t].exc = "none"
        /\ api_ret[t].value \in ResultsOf(Endpoints(key(t))[1])

\* C2 (as claimed): when the endpoint answers 401, the stored sessionid is cleared
\* and the next attempt of the call logs in again.
C2_AuthFailureClearsToken ==
    [][\A t \in Tasks :
        (ApiStep(t) /\ got'[t].status = 401)
            => /\ cookies'[server(t)] = NoSession
               /\ num[t] < retries => pc'[t] = "login_wait"]_vars

\* C3: an attempt that begins while the server's cookie jar holds no sessionid
\* sends the login first, the cookie of the login's response is stored in the jar
\* and the endpoint request that follows carries it; an attempt that begins while
\* the jar holds a sessionid sends no login, leaves the jar alone and sends the
\* endpoint request with the stored sessionid.
C3_LoginOnlyWithoutToken ==
    [][\A t \in Tasks :
        LET s == server(t)
        IN  /\ BeginsAttempt(t) =>
                IF cookies[s] = NoSession
                THEN pc'[t] = "login_wait" /\ inflight'[t].op = "login"
                ELSE /\ pc'[t] = "request_wait"
                     /\ inflight'[t].op = "api"
                     /\ inflight'[t].arg = cookies[s]
                     /\ cookies'[s] = cookies[s]
            /\ (LoginStep(t) /\ pc'[t] = "request_wait" /\ num'[t] = num[t])
                => /\ got'[t].status = 200
                   /\ cookies'[s] = got'[t].id
                   /\ inflight'[t].op = "api"
                   /\ inflight'[t].arg = got'[t].id]_vars

\* C3 witness: a task that never logged in awaits an endpoint request carrying the
\* sessionid another task's login stored.
C3_Witness ==
    \E t \in Tasks :
        /\ pc[t] = "request_wait"
        /\ got[t].op = "none"
        /\ cookies[server(t)] # NoSession
        /\ inflight[t].arg = cookies[server(t)]

\* C4 (as claimed): after a call of the builder returned None the task skips the
\* cycle: it is asleep or in a later cycle's call, never ended.
C4_NoContentSkipsCycle ==
    \A t \in Tasks :
        api_ret[t].value = "None" => pc[t] \in {"sleeping", "login_wait", "request_wait"}

\* C5 (as claimed): no failure of a cycle ends a section's task.
C5_NoFailureEndsTask ==
    \A t \in Tasks : pc[t] # "failed"

\* C6 (as claimed): no task is stopped because of another task's failing cycle.
C6_FailureLeavesOtherTasks ==
    \A t \in Tasks : pc[t] # "cancelled"

\* C7: while a publish is awaited, it is a send exactly when the task's message id
\* is the sentinel (loaded at startup and the document still holds it) or None
\* (set after a not-found answer), and otherwise an edit of exactly the task's id,
\* which is the id the document holds for the key; in the first cycle that id is
\* the one loaded from the persisted file.
C7_CreateOnlyWithoutHandle ==
    \A t \in Tasks :
        pc[t] = "publish_wait" =>
            LET h == message_id[t]
                stored == message_ids[server(t)].table[key(t)]
            IN  /\ inflight[t].op \in {"create", "edit"}
                /\ inflight[t].op = "create" <=> h \in {NONE_MESSAGE_ID, PyNone}
                /\ h = NONE_MESSAGE_ID => stored = NONE_MESSAGE_ID
                /\ h = PyNone => cycle[t] > 1 /\ last_publish[t].outcome # "ok"
                /\ inflight[t].op = "edit" => inflight[t].arg = h /\ stored = h
                /\ cycle[t] = 1 => h = get_message_ids(config.files[server(t)]).table[key(t)]

\* C7 witness: the first publish of a section whose persisted file held id 7 is an
\* edit of message 7.
C7_Witness ==
    \E t \in Tasks :
        /\ pc[t] = "publish_wait"
        /\ cycle[t] = 1
        /\ config.files[server(t)].doc.has_table
        /\ inflight[t].op = "edit"
        /\ inflight[t].arg = 7

\* C8 (as claimed): an edit answered with not-found is followed, in the same
\* publish step, by the send of a new message.
C8_NotFoundCreatesInSameStep ==
    [][\A t \in Tasks :
        (PublishStep(t) /\ inflight[t].op = "edit" /\ got'[t].body = "NotFound")
            => pc'[t] = "publish_wait" /\ inflight'[t].op = "create"]_vars

\* C8 (amended): after an edit answered with not-found the task's message id is
\* None and the document still holds the id that was edited; no send follows in
\* that cycle, which goes on to the save and the sleep; the next publish of the
\* task, in a later cycle, is a send.
C8_NotFoundCreatesNextCycle ==
    \A t \in Tasks :
        (last_publish[t].op = "edit" /\ last_publish[t].outcome = "NotFound") =>
            /\ message_id[t] = PyNone
            /\ message_ids[server(t)].table[key(t)] = last_publish[t].arg
            /\ cycle[t] = last_publish[t].cycle
                => pc[t] \in {"save_open", "save_write", "sleeping", "cancelled"}
            /\ pc[t] = "publish_wait"
                => inflight[t].op = "create" /\ cycle[t] > last_publish[t].cycle

\* C8 witness: the publish after an edit that was answered with not-found.
C8_Witness ==
    \E t \in Tasks :
        /\ last_publish[t].op = "edit"
        /\ last_publish[t].outcome = "NotFound"
        /\ pc[t] = "publish_wait"
        /\ inflight[t].op = "create"

\* C9: after a rate-limited publish the task's message id is the one it had before
\* the attempt; the cycle goes on to the save and the sleep with no second publish
\* and without ending the task; the next publish of the task is for that id (an
\* edit of it, or a send when there was none).
C9_RateLimitedKeepsHandle ==
    \A t \in Tasks :
        last_publish[t].outcome = "RateLimited" =>
            /\ message_id[t] = last_publish[t].before
            /\ cycle[t] = last_publish[t].cycle
                => pc[t] \in {"save_open", "save_write", "sleeping", "cancelled"}
            /\ pc[t] = "publish_wait"
                => /\ cycle[t] > last_publish[t].cycle
                   /\ inflight[t].op = last_publish[t].op
                   /\ inflight[t].arg = last_publish[t].before

\* C9 witness: the edit of the same id in the cycle after a rate-limited edit.
C9_Witness ==
    \E t \in Tasks :
        /\ last_publish[t].outcome = "RateLimited"
        /\ last_publish[t].op = "edit"
        /\ pc[t] = "publish_wait"
        /\ inflight[t].op = "edit"
        /\ inflight[t].arg = last_publish[t].before

\* C10: a task asleep after a cycle whose publish succeeded has recorded the id
\* the webhook returned in the server's document, has serialised the document with
\* that id and has finished writing it: the file holds the document with that id.
C10_SavedBeforeSleep ==
    \A t \in Tasks :
        (pc[t] = "sleeping" /\ last_publish[t].outcome = "ok") =>
            LET returned == IF last_publish[t].op = "edit" THEN last_publish[t].arg
                            ELSE message_id[t]
            IN  /\ last_publish[t].cycle = cycle[t]
                /\ message_id[t] = returned
                /\ Truthy(returned)
                /\ message_ids[server(t)].table[key(t)] = returned
                /\ toml[t] = message_ids[server(t)]
                /\ disk[server(t)] = File(message_ids[server(t)])

\* C10 witness: a task asleep after its send returned a new id, the file holding
\* that id.
C10_Witness ==
    \E t \in Tasks :
        /\ pc[t] = "sleeping"
        /\ last_publish[t].outcome = "ok"
        /\ last_publish[t].op = "create"
        /\ disk[server(t)].doc.table[key(t)] = message_id[t]
        /\ message_id[t] > 10

\* C11 (as claimed): the time to sleep computed at the end of a cycle is
\* max(0, refresh interval - elapsed time): zero, never negative, when the cycle
\* took longer than the interval (compared in nanoseconds).
C11_SleepIsClampedRemainder ==
    \A t \in Tasks :
        pc[t] = "sleeping" =>
            LET refresh_delay_ns == config.time_between_refreshes[server(t)] * factor
                remainder == refresh_delay_ns - sleep[t].elapsed_time_ns
            IN  /\ sleep[t].time_to_sleep >= 0
                /\ sleep[t].time_to_sleep * factor = IF remainder > 0 THEN remainder ELSE 0

\* The raw names of the rotation being guessed on.
GuessNames == [i \in DOMAIN guess.rotation |-> guess.rotation[i].raw_name]

\* The elements of a list.
Range(list) == {list[i] : i \in DOMAIN list}

\* The current positions have been guessed.
Guessed == guess.pc \in {"current", "next"}

\* C12: when the current map's raw name occurs exactly once in the rotation and is
\* not the between-matches name, the guessed current positions are one position,
\* the one place (from 0) that holds the current map, whatever the next map is.
C12_UniqueCurrentIsItsIndex ==
    (/\ Guessed
     /\ guess.current_map.raw_name # BETWEEN_MATCHES_MAP_NAME
     /\ count(GuessNames, guess.current_map.raw_name) = 1)
        => /\ Len(guess.current_map_positions) = 1
           /\ guess.current_map_positions[1] \in 0 .. Len(guess.rotation) - 1
           /\ GuessNames[guess.current_map_positions[1] + 1] = guess.current_map.raw_name

\* C12 witness: rotation A B A, current B (once), next A (twice): position 1.
C12_Witness ==
    /\ Guessed
    /\ GuessNames = <<"A", "B", "A">>
    /\ guess.current_map.raw_name = "B"
    /\ guess.next_map.raw_name = "A"
    /\ guess.current_map_positions = <<1>>

\* C13: when the current map is the between-matches map, the guessed current
\* positions and the next positions derived from them are empty.
C13_BetweenMatchesGivesNothing ==
    guess.current_map.raw_name = BETWEEN_MATCHES_MAP_NAME
        => /\ Guessed => guess.current_map_positions = <<>>
           /\ guess.pc = "next" => guess.next_map_positions = <<>>

\* C13 witness: both guesses made between matches, on a rotation that holds the
\* next map.
C13_Witness ==
    /\ guess.pc = "next"
    /\ guess.current_map.raw_name = BETWEEN_MATCHES_MAP_NAME
    /\ guess.next_map.raw_name \in Range(GuessNames)
    /\ guess.next_map_positions = <<>>

\* C14: when the current map occurs twice or more in the rotation (and is a map),
\* the guessed current positions are, each once, the places (i - 1) mod len of the
\* places i holding the next map; for A B A C with current A: next C gives 2 and
\* next B gives 0.
C14_AmbiguousCurrentPrecedesNext ==
    (Guessed /\ count(GuessNames, guess.current_map.raw_name) >= 2)
        => LET len == Len(guess.rotation)
               expected == {(i - 1) % len : i \in {j \in 0 .. len - 1 :
                                GuessNames[j + 1] = guess.next_map.raw_name}}
           IN  /\ Range(guess.current_map_positions) = expected
               /\ Len(guess.current_map_positions) = Cardinality(expected)
               /\ (GuessNames = <<"A", "B", "A", "C">> /\ guess.current_map.raw_name = "A")
                    => /\ guess.next_map.raw_name = "C" => guess.current_map_positions = <<2>>
                       /\ guess.next_map.raw_name = "B" => guess.current_map_positions = <<0>>

\* C14 witness: rotation A B A C, current A, next C: position 2.
C14_Witness ==
    /\ Guessed
    /\ GuessNames = <<"A", "B", "A", "C">>
    /\ guess.current_map.raw_name = "A"
    /\ guess.next_map.raw_name = "C"
    /\ guess.current_map_positions = <<2>>

\* C15 (as claimed): every guessed current position holds the current map.
C15_CurrentPositionsHoldCurrent ==
    Guessed =>
        \A i \in Range(guess.current_map_positions) :
            /\ i \in 0 .. Len(guess.rotation) - 1
            /\ GuessNames[i + 1] = guess.current_map.raw_name

\* C16: the next positions are the current positions each advanced by one place,
\* the last place going to 0: as many as the current positions, in the same
\* order, (p + 1) mod len for position p, each a place of the rotation.
C16_NextIsSuccessorModLen ==
    guess.pc = "next" =>
        /\ Len(guess.next_map_positions) = Len(guess.current_map_positions)
        /\ \A j \in DOMAIN guess.current_map_positions :
            LET p == guess.current_map_positions[j]
                len == Len(guess.rotation)
            IN  /\ guess.next_map_positions[j] = (p + 1) % len
                /\ guess.next_map_positions[j] \in 0 .. len - 1
                /\ p = len - 1 => guess.next_map_positions[j] = 0
                /\ p # len - 1 => guess.next_map_positions[j] = p + 1

\* C16 witness: current positions 3 (the last place) and 1 of a rotation of 4 give
\* next positions 0 and 2.
C16_Witness ==
    /\ guess.pc = "next"
    /\ Len(guess.rotation) = 4
    /\ guess.current_map_positions = <<3, 1>>
    /\ guess.next_map_positions = <<0, 2>>

\* C17 (as claimed): on an empty rotation both guesses are empty; on a rotation of
\* one map, unless the current map is the between-matches map, the current
\* position is 0 and the next position is 0.
C17_EmptyAndSingleRotation ==
    guess.pc = "next" =>
        /\ Len(guess.rotation) = 0
            => guess.current_map_positions = <<>> /\ guess.next_map_positions = <<>>
        /\ (Len(guess.rotation) = 1 /\ guess.current_map.raw_name # BETWEEN_MATCHES_MAP_NAME)
            => guess.current_map_positions = <<0>> /\ guess.next_map_positions = <<0>>

\* What the persisted file of server s held for key k, NONE_MESSAGE_ID when the
\* file, the table or the key was missing.
Persisted(s, k) ==
    IF disk[s].exists /\ disk[s].doc.has_table /\ k \in DOMAIN disk[s].doc.table
    THEN disk[s].doc.table[k]
    ELSE NONE_MESSAGE_ID

\* C18: once a server's message ids are loaded and validated, whatever the file
\* was (absent, empty, without the table, with any of the keys), the document has
\* the table, the table has every section key, a key the file lacked holds
\* NONE_MESSAGE_ID and a key the file had holds the value of the file.
C18_ValidatedHasEveryKey ==
    \A s \in server_sections :
        /\ message_ids[s].has_table
        /\ keys \subseteq DOMAIN message_ids[s].table
        /\ \A k \in keys : message_ids[s].table[k] = Persisted(s, k)

\* C18 witness: a file with header and map_rotation_embed only was loaded: the two
\* keep 7 and 9, gamestate holds the default.
C18_Witness ==
    \E s \in server_sections :
        /\ disk[s].exists
        /\ DOMAIN disk[s].doc.table = {"header", "map_rotation_embed"}
        /\ message_ids[s].table["header"] = 7
        /\ message_ids[s].table["map_rotation_embed"] = 9
        /\ message_ids[s].table["gamestate"] = NONE_MESSAGE_ID

\* C19: a server whose persisted file does not exist is loaded without a failure:
\* its document holds the table with exactly the section keys, each at
\* NONE_MESSAGE_ID, and every enabled section of the server is listed with
\* NONE_MESSAGE_ID as its message id.
C19_MissingFileLoadsDefaults ==
    \A s \in server_sections :
        ~disk[s].exists =>
            /\ message_ids[s] = Doc([k \in keys |-> NONE_MESSAGE_ID])
            /\ \A t \in config.enabled :
                server(t) = s => /\ pc[t] \in {"section", "created"}
                                 /\ error[t] = "none"
                                 /\ message_id[t] = NONE_MESSAGE_ID

\* C19 witness: both servers loaded, s1 without a file, its four sections listed.
C19_Witness ==
    /\ server_sections = Servers
    /\ ~disk["s1"].exists
    /\ \A k \in keys : pc[<<"s1", k>>] = "section"

\* The last attempt of task t's call failed in login in this step: the login POST
\* of attempt 5 got a non-success status, or the call was made with an empty
\* username or password (no attempt gets past login's test).
LoginFailsForGood(t) ==
    \/ LoginStep(t) /\ got'[t].status # 200 /\ num[t] = retries
    \/ /\ pc[t] = "created"
       /\ pc'[t] \notin {"created", "cancelled"}
       /\ ~config.credentials[server(t)]

\* C20 (as claimed): a call made with an empty username or password, or whose
\* login gets a non-success status, ends with an error raised to its caller, not
\* with the None that exhausted retries return.
C20_LoginFailureIsAuthError ==
    [][\A t \in Tasks :
        LoginFailsForGood(t)
            => api_ret'[t].value = "raised" /\ api_ret'[t].exc \notin {"none", "TypeError"}]_vars

\* C21 (as claimed): a response whose result is null or whose result field is
\* absent is retried like any empty result: the next attempt follows while fewer
\* than 5 were made, and after the 5th the call returns None and raises nothing.
C21_EmptyResultIsRetried ==
    [][\A t \in Tasks :
        (ApiStep(t) /\ got'[t].status = 200 /\ got'[t].body \in {"null", "absent"})
            => RetriedOrNone(t)]_vars

\* C22 (as claimed): a gamestate or a rotation naming a map that is not in the
\* table of known maps does not end the section task that received it.
C22_UnknownMapKeepsRunning ==
    [][\A t \in Tasks :
        (ApiStep(t) /\ got'[t].status = 200 /\ got'[t].body \in {"bad_map", "bad_rotation_map"})
            => pc'[t] \in Alive /\ error'[t] = "none"]_vars

\* C25: the sessionid a server's jar holds changes only in a step in which a task
\* of that server handles a login answered with success, and then to what that
\* login returned; an attempt that fails with a retryable error and a login that
\* fails leave every jar as it was.
C25_TokenChangesOnlyByLogin ==
    [][/\ \A s \in Servers :
            cookies'[s] # cookies[s]
                => \E t \in Tasks : /\ server(t) = s
                                    /\ LoginStep(t)
                                    /\ got'[t].status = 200
                                    /\ cookies'[s] = got'[t].id
       /\ \A t \in Tasks :
            ((ApiStep(t) /\ RetryableFailure(got'[t])) \/ (LoginStep(t) /\ got'[t].status # 200))
                => cookies' = cookies]_vars

\* C25 witness: a task's login failed while the jar held the sessionid of another
\* task's login, and the jar still holds it.
C25_Witness ==
    \E t \in Tasks :
        /\ got[t].op = "login"
        /\ got[t].status # 200
        /\ cookies[server(t)] # NoSession

\* C26 (as claimed): the message id a task carries and the entry of its key in
\* the document change only in a publish that succeeded, and then to the id that
\* publish returned.
C26_HandleChangesOnlyOnSuccess ==
    [][\A t \in Tasks :
        LET stored == message_ids[server(t)].table[key(t)]
            stored_after == message_ids'[server(t)].table[key(t)]
        IN  (message_id'[t] # message_id[t] \/ stored_after # stored)
                => /\ PublishStep(t)
                   /\ got'[t].body = "ok"
                   /\ message_id'[t] = got'[t].id
                   /\ stored_after = got'[t].id]_vars

\* C26 (amended): the entry of the task's key in the document changes only in a
\* publish that succeeded, to the id the publish returned, which the task then
\* carries too; the id the task carries changes besides only in a publish answered
\* with not-found, to None; a rate-limited publish changes neither.
C26_HandleChangesOnSuccessOrNotFound ==
    [][\A t \in Tasks :
        LET stored == message_ids[server(t)].table[key(t)]
            stored_after == message_ids'[server(t)].table[key(t)]
            returned == IF inflight[t].op = "edit" THEN inflight[t].arg ELSE next_id + 1
        IN  /\ stored_after # stored
                => /\ PublishStep(t)
                   /\ got'[t].body = "ok"
                   /\ stored_after = returned
                   /\ message_id'[t] = returned
            /\ message_id'[t] # message_id[t]
                => /\ PublishStep(t)
                   /\ \/ got'[t].body = "ok" /\ message_id'[t] = returned /\ stored_after = returned
                      \/ /\ got'[t].body = "NotFound"
                         /\ message_id'[t] = PyNone
                         /\ stored_after = stored
            /\ (PublishStep(t) /\ got'[t].body = "RateLimited")
                => message_id'[t] = message_id[t] /\ stored_after = stored
            /\ (PublishStep(t) /\ got'[t].body = "ok")
                => message_id'[t] = returned /\ stored_after = returned]_vars

\* C26 witness: a send returned a new id, which the task carries and the document
\* holds in place of the default.
C26_Witness ==
    \E t \in Tasks :
        /\ last_publish[t].op = "create"
        /\ last_publish[t].outcome = "ok"
        /\ last_publish[t].before = NONE_MESSAGE_ID
        /\ message_id[t] > 10
        /\ message_ids[server(t)].table[key(t)] = message_id[t]

\* C23 (as claimed): when no server config is found the error is logged and the
\* process stays running: main never ends.
C23_NoServersIdles ==
    config.servers = {} =>
        /\ main.pc # "start" => main.logged
        /\ main.pc \notin {"returned", "raised"}

\* C23 (amended): when no server config is found, main logs the error, raises
\* nothing and creates no task; the TaskGroup it enters holds no task, so the one
\* step main can take from there is to leave it and return: the process ends.
C23_NoServersLogsAndReturns ==
    [][config.servers = {} =>
        /\ main'.logged
        /\ main'.pc \in {"loading", "taskgroup", "returned"}
        /\ main'.tasks = <<>>
        /\ \A t \in Tasks : pc'[t] = "off"
        /\ main.pc = "taskgroup" => main'.pc = "returned"]_vars

\* C23 witness: main has returned with no server config found and the error logged.
C23_Witness ==
    /\ config.servers = {}
    /\ main.logged
    /\ main.pc = "returned"

\* The tasks main created for key k of server s.
TasksFor(s, k) ==
    {i \in DOMAIN main.tasks : main.tasks[i].app_store = s /\ main.tasks[i].key = k}

\* C24: once main has created its tasks, there is exactly one task for each
\* enabled section of each server that has a config and none for any other
\* section, and each task was given its server's AppStore and Config and the id
\* the server's validated document holds for the task's own key, which is the id
\* loaded from the server's file.
C24_OneTaskPerEnabledSection ==
    main.pc = "taskgroup" =>
        /\ \A s \in Servers, k \in keys :
            Cardinality(TasksFor(s, k)) =
                IF s \in config.servers /\ <<s, k>> \in config.enabled THEN 1 ELSE 0
        /\ \A i \in DOMAIN main.tasks :
            LET task == main.tasks[i]
            IN  /\ task.config = task.app_store
                /\ task.message_id = message_ids[task.app_store].table[task.key]
                /\ config.files = disk => task.message_id = Persisted(task.app_store, task.key)
        /\ \A t \in Tasks :
            pc[t] # "off" <=> (server(t) \in config.servers /\ t \in config.enabled)

\* C24 witness: s1 alone has a config, with every section enabled and a file
\* holding ids for header and map_rotation_embed: four tasks, two with loaded ids.
C24_Witness ==
    /\ main.pc = "taskgroup"
    /\ config.servers = {"s1"}
    /\ Len(main.tasks) = 4
    /\ \E i \in DOMAIN main.tasks : main.tasks[i].key = "header" /\ main.tasks[i].message_id = 7
    /\ \E i \in DOMAIN main.tasks :
        main.tasks[i].key = "gamestate" /\ main.tasks[i].message_id = NONE_MESSAGE_ID

\* C27: once two tasks of one server have both logged in, the server's jar holds
\* the sessionid one of the two logins returned, and an endpoint request either
\* task awaits carries one of the two; a sessionid in a server's jar or in a
\* request of its tasks is always one a login of a task of that same server
\* returned, so no login changes the jar of another server.
C27_RacingLoginsLeaveIssuedToken ==
    /\ \A t, u \in Tasks :
        (/\ t # u
         /\ server(t) = server(u)
         /\ login_token[t] # NoSession
         /\ login_token[u] # NoSession)
            => /\ cookies[server(t)] \in {login_token[t], login_token[u]}
               /\ pc[t] = "request_wait" => inflight[t].arg \in {login_token[t], login_token[u]}
    /\ \A s \in Servers :
        cookies[s] # NoSession
            => \E t \in Tasks : server(t) = s /\ login_token[t] = cookies[s]
    /\ \A t \in Tasks :
        (pc[t] = "request_wait" /\ inflight[t].arg # NoSession)
            => \E u \in Tasks : server(u) = server(t) /\ login_token[u] = inflight[t].arg

\* C27 witness: two tasks of one server logged in at the same time; the jar holds
\* the sessionid of the login that returned last, and the task whose login
\* returned first still awaits its request with its own sessionid.
C27_Witness ==
    \E t, u \in Tasks :
        /\ t # u
        /\ server(t) = server(u)
        /\ login_token[t] # NoSession
        /\ login_token[u] # NoSession
        /\ login_token[t] # login_token[u]
        /\ cookies[server(t)] = login_token[u]
        /\ pc[t] = "request_wait"
        /\ inflight[t].arg = login_token[t]

\* C28: the publish of a task that carries None (its last edit was answered with
\* not-found) is a send; when it succeeds the task carries the id of the new
\* message, an id no message had before, and the document holds it in place of
\* the stale one; while the task carries a true id that the document holds, the
\* document keeps that id and the task carries it until another publish is
\* answered with not-found; and the file holds the document when the save ends.
C28_SelfHealsAfterNotFound ==
    [][\A t \in Tasks :
        LET s == server(t)
            k == key(t)
        IN  /\ (PublishStep(t) /\ message_id[t] = PyNone)
                => /\ inflight[t].op = "create"
                   /\ last_publish[t].outcome \in {"NotFound", "RateLimited"}
                   /\ got'[t].body = "ok"
                        => /\ message_id'[t] > next_id
                           /\ message_id'[t] # message_ids[s].table[k]
                           /\ message_ids'[s].table[k] = message_id'[t]
            /\ (Truthy(message_id[t]) /\ message_ids[s].table[k] = message_id[t])
                => /\ message_ids'[s].table[k] = message_id[t]
                   /\ message_id'[t] \in {message_id[t], PyNone}
                   /\ message_id'[t] = PyNone => got'[t].body = "NotFound"
            /\ (pc[t] = "save_write" /\ pc'[t] = "sleeping")
                => disk'[s].doc.table[k] = toml[t].table[k]]_vars

\* C28 witness: after an edit answered with not-found and a send that succeeded,
\* the task sleeps carrying the new id, and the document and the file hold it.
C28_Witness ==
    \E t \in Tasks :
        /\ pc[t] = "sleeping"
        /\ last_publish[t].op = "create"
        /\ last_publish[t].before = PyNone
        /\ last_publish[t].outcome = "ok"
        /\ Truthy(message_id[t])
        /\ message_ids[server(t)].table[key(t)] = message_id[t]
        /\ disk[server(t)].doc.table[key(t)] = message_id[t]

\* C29 (as claimed): once two tasks of one server have both finished the save of
\* a cycle whose publish succeeded, the server's file holds the id each of them
\* published last.
C29_ConcurrentSavesKeepBoth ==
    \A t, u \in Tasks :
        (/\ t # u
         /\ server(t) = server(u)
         /\ pc[t] = "sleeping" /\ last_publish[t].outcome = "ok"
         /\ pc[u] = "sleeping" /\ last_publish[u].outcome = "ok")
            => /\ disk[server(t)].doc.has_table
               /\ disk[server(t)].doc.table[key(t)] = message_id[t]
               /\ disk[server(t)].doc.table[key(u)] = message_id[u]

\* C30: a step changes the entry of key k in the document of server s only when
\* it is the publish step of the task of section k of server s; the keys of a
\* document never change.
C30_CycleWritesOnlyItsOwnKey ==
    [][\A s \in Servers :
        /\ DOMAIN message_ids'[s].table = DOMAIN message_ids[s].table
        /\ \A k \in keys :
            message_ids'[s].table[k] # message_ids[s].table[k]
                => /\ PublishStep(<<s, k>>)
                   /\ \A t \in Tasks \ {<<s, k>>} : pc'[t] = pc[t]]_vars

\* C30 witness: the gamestate task of s1 stored a new id while the header entry of
\* s1 keeps the id loaded from the file.
C30_Witness ==
    /\ last_publish[<<"s1", "gamestate">>].outcome = "ok"
    /\ last_publish[<<"s1", "gamestate">>].op = "create"
    /\ message_ids["s1"].table["gamestate"] > 10
    /\ message_ids["s1"].table["header"] = get_message_ids(config.files["s1"]).table["header"]
    /\ pc[<<"s1", "header">>] \in Alive

\* C31: a call has sent at most 5 endpoint requests and at most 5 logins, at most
\* one of each in an attempt; after the response of an attempt that succeeds the
\* call sends nothing more; an attempt that begins while the jar is empty sends a
\* login before anything else; and a call all of whose logins were refused, the
\* jar empty, has sent no endpoint request.
C31_AtMostFiveRequestsPerCall ==
    [][\A t \in Tasks :
        LET waits == {"login_wait", "request_wait"}
            begins == pc[t] \notin waits \/ call'[t] # call[t]
        IN  /\ sent'[t].api <= retries
            /\ sent'[t].login <= retries
            /\ (pc'[t] \in waits)
                => (/\ sent'[t].api <= num'[t]
                    /\ sent'[t].login <= num'[t]
                    /\ sent'[t].api + sent'[t].login >= 1)
            /\ (ApiStep(t) /\ got'[t].status = 200 /\ got'[t].body \notin {"null", "absent"})
                => (\/ pc'[t] \notin waits
                    \/ (call'[t] = call[t] + 1 /\ num'[t] = 1
                        /\ sent'[t].api + sent'[t].login = 1))
            /\ (BeginsAttempt(t) /\ cookies[server(t)] = NoSession)
                => (/\ pc'[t] = "login_wait"
                    /\ sent'[t].login = IF begins THEN 1 ELSE sent[t].login + 1
                    /\ sent'[t].api = IF begins THEN 0 ELSE sent[t].api)
            /\ (sent'[t].refused = sent'[t].login /\ cookies'[server(t)] = NoSession)
                => sent'[t].api = 0]_vars

\* C31 witness: a call ended after 5 logins, each refused, and no endpoint request.
C31_Witness ==
    \E t \in Tasks :
        /\ pc[t] = "failed"
        /\ sent[t] = [api |-> 0, login |-> retries, refused |-> retries]

====
